---- MODULE Spec2Model ----
(***************************************************************************)
(* A model of the SciRag vector indexing and retrieval engine:             *)
(*   rag/vector_store.py  VectorStore (open, add_many, all, search)        *)
(*   rag/indexer.py       _get_indexed_count, index_pdfs                   *)
(*   rag/retrieval.py     format_context, answer_query                     *)
(*                                                                         *)
(* The documents table is the sequence rows, in id (insertion) order.      *)
(* Chunk texts of an indexed document are the pairs <<d, j>>: chunking is  *)
(* deterministic, so chunk j of document d is the same text on every run.  *)
(* A similarity score is kept as the exact rational sign(c) * c^2 of the   *)
(* cosine c (an order-preserving image of the float the code computes).    *)
(***************************************************************************)
EXTENDS Integers, Sequences, FiniteSets, TLC

\* ---------------------------------------------------------------- bounds
NumDocs == 2          \* documents found by the directory walk
MaxFaults == 2        \* provider / storage faults the environment may inject
MaxRows == 2          \* rows in the table when the store is driven directly
MaxBatchLen == 2      \* longest argument list of a direct add_many call
MaxTopK == 3          \* largest top_k of a search
MaxPages == 2         \* pages given to chunk_text_per_page
MaxTokens == 2        \* largest max_tokens of a chunking call
MaxOverlap == 2       \* largest overlap of a chunking call

\* ------------------------------------------------------ program constants
BATCH == 64

Docs == 1..NumDocs
Procs == {1, 2}
\* embeddings and query vectors: the zero vector, the spec's [1,0], [0,1], [1,1],
\* and one pointing away from [1,0]
Vecs == {<<0, 0>>, <<1, 0>>, <<0, 1>>, <<1, 1>>, <<0 - 1, 0>>}
TopKs == (0 - 1)..MaxTopK
\* chunk counts of a document: none, less than a batch, one full batch, and a
\* full batch followed by a partial one
ChunkCounts == {0, 1, BATCH, BATCH + 1}
\* documents a direct caller of the store writes
StoreDocs == {1, 2}
Answers == {"a1", "a2"}

VARIABLES
    rows,      \* the documents table: committed rows in id order
    schema,    \* TRUE once CREATE TABLE IF NOT EXISTS has run at the location
    total,     \* total[d]: len(chunks) computed for document d (0: nothing to index)
    pc,        \* pc[p]: position of index_pdfs process p
    docIdx,    \* docIdx[p]: position of p's directory walk
    already,   \* already[p]: already_indexed read for the current document
    i,         \* i[p]: the batch loop variable
    embs,      \* embs[p]: embeddings returned for the current batch
    result,    \* result[p]: how p's last index_pdfs invocation ended
    seen,      \* seen[p][d]: already_indexed p read for d in this invocation (-1: none)
    embedCalls,\* embedCalls[p][d]: embed_texts calls of this invocation for d
    addCalls,  \* addCalls[p][d]: add_many calls of this invocation for d
    faults,    \* faults injected so far
    provFail,  \* provFail[d]: a provider failure has aborted the indexing of d
    swallowed, \* swallowed[d]: a count query error was swallowed while d had rows
    op,        \* the last operation that ran
    out,       \* what it returned (or raised)
    ck         \* the chunk_text_per_page call in progress

vars == <<rows, schema, total, pc, docIdx, already, i, embs, result, seen,
          embedCalls, addCalls, faults, provFail, swallowed, op, out, ck>>
idxVars == <<total, pc, docIdx, already, i, embs, result, seen, embedCalls, addCalls,
             faults, provFail, swallowed, ck>>
\* everything but the chunking call
coreVars == <<rows, schema, total, pc, docIdx, already, i, embs, result, seen,
              embedCalls, addCalls, faults, provFail, swallowed, op, out>>

\* ---------------------------------------------------------------- helpers
Min(a, b) == IF a < b THEN a ELSE b

Range(s) == {s[k] : k \in 1..Len(s)}

\* python s[:k]
Slice(s, k) ==
    IF k >= 0 THEN SubSeq(s, 1, Min(k, Len(s)))
    ELSE SubSeq(s, 1, IF Len(s) + k > 0 THEN Len(s) + k ELSE 0)

\* python s[a:a+n] for 0 <= a
Window(s, a, n) == SubSeq(s, a + 1, Min(a + n, Len(s)))

\* ------------------------------------------------------------ vector store
\* json.loads(json.dumps(v)): on the values stored here (objects with string
\* keys, integers, lists of numbers) parsing gives back the value dumped
JsonRoundTrip(v) == v

NextIdRestart(rs) == 1

\* id INTEGER PRIMARY KEY AUTOINCREMENT: one more than the largest id ever used
NextId(rs) == IF rs = <<>> THEN 1 ELSE rs[Len(rs)].id + 1

\* the tuples add_many builds: chunk_id is the position within this call's lists
BuildRows(doc_id, chunks, metadatas, embeddings) ==
    [k \in 1..Min(Len(chunks), Min(Len(metadatas), Len(embeddings))) |->
        [doc_id |-> doc_id, chunk_id |-> k - 1, text |-> chunks[k],
         meta |-> JsonRoundTrip(metadatas[k]),
         embedding |-> JsonRoundTrip(embeddings[k])]]

\* executemany: the rows inserted inside the transaction; failAt = 0: all of
\* them, failAt = j > 0: the insert of row j raised sqlite3.Error
ExecuteMany(rs, new, failAt) ==
    [k \in 1..(IF failAt = 0 THEN Len(new) ELSE failAt - 1) |->
        [id |-> NextId(rs) + k - 1, doc_id |-> new[k].doc_id,
         chunk_id |-> new[k].chunk_id, text |-> new[k].text,
         meta |-> new[k].meta, embedding |-> new[k].embedding]]

ConnExitNoRollback(rs, txn, raised) == rs \o txn

\* "with sqlite3.connect(...) as conn": commit on success, rollback on exception
ConnExit(rs, txn, raised) == IF raised THEN rs ELSE rs \o txn

AddManyNoAssert(rs, doc_id, chunks, metadatas, embeddings, failAt) ==
    LET new == BuildRows(doc_id, chunks, metadatas, embeddings)
        fa  == IF failAt > Len(new) THEN 0 ELSE failAt
    IN [rows |-> ConnExit(rs, ExecuteMany(rs, new, fa), fa # 0),
        err |-> IF fa # 0 THEN "sqlite3.Error" ELSE "none"]

AddManyIfAbsent(rs, doc_id, chunks, metadatas, embeddings, failAt) ==
    IF \E k \in 1..Len(rs) : rs[k].doc_id = doc_id /\ rs[k].text \in Range(chunks)
    THEN [rows |-> rs, err |-> "none"]
    ELSE AddManyNoAssert(rs, doc_id, chunks, metadatas, embeddings, failAt)

\* VectorStore.add_many: the table afterwards and the exception raised
AddMany(rs, doc_id, chunks, metadatas, embeddings, failAt) ==
    IF ~(Len(chunks) = Len(metadatas) /\ Len(metadatas) = Len(embeddings))
    THEN [rows |-> rs, err |-> "AssertionError"]
    ELSE LET new == BuildRows(doc_id, chunks, metadatas, embeddings)
         IN [rows |-> ConnExit(rs, ExecuteMany(rs, new, failAt), failAt # 0),
             err |-> IF failAt # 0 THEN "sqlite3.Error" ELSE "none"]

\* VectorStore.all: (id, doc_id, chunk_id, text, meta, embedding) per row
All(rs) ==
    [k \in 1..Len(rs) |->
        [id |-> rs[k].id, doc_id |-> rs[k].doc_id, chunk_id |-> rs[k].chunk_id,
         text |-> rs[k].text, meta |-> JsonRoundTrip(rs[k].meta),
         embedding |-> JsonRoundTrip(rs[k].embedding)]]

\* ------------------------------------------------------------------ search
Dot(a, b) == a[1] * b[1] + a[2] * b[2]

Sign(x) == IF x > 0 THEN 1 ELSE IF x < 0 THEN 0 - 1 ELSE 0

\* (A . B) / (||A|| * ||B|| + 1e-12), kept as sign(c) * c^2 = num / den; a zero
\* vector gives 0 / 1e-12 = 0
Cosine(a, q) ==
    LET d == Dot(a, q)
        n == Dot(a, a) * Dot(q, q)
    IN IF n = 0 THEN [num |-> 0, den |-> 1]
       ELSE [num |-> Sign(d) * d * d, den |-> n]

ScoreLeq(s, t) == s.num * t.den <= t.num * s.den
ScoreLt(s, t) == s.num * t.den < t.num * s.den
Neg(s) == [num |-> 0 - s.num, den |-> s.den]

\* sims = matrix @ query / denom
Sims(all, q) == [k \in 1..Len(all) |-> Cosine(all[k].embedding, q)]

Perms(n) == {f \in [1..n -> 1..n] : \A a, b \in 1..n : a # b => f[a] # f[b]}

ArgsortUnsorted(keys) == Perms(Len(keys))

\* np.argsort(keys): every index order in which keys never decrease (the
\* default sort kind is not stable, so equal keys may come in any order)
Argsort(keys) ==
    {f \in Perms(Len(keys)) :
        \A k \in 1..(Len(keys) - 1) : ScoreLeq(keys[f[k]], keys[f[k + 1]])}

RankKeysAscending(sims) == sims

\* the keys search sorts by: -sims
RankKeys(sims) == [k \in 1..Len(sims) |-> Neg(sims[k])]

TopIdxsOffByOne(order, top_k) == Slice(order, top_k - 1)

\* idxs = argsort(...)[:top_k]
TopIdxs(order, top_k) == Slice(order, top_k)

Hit(row, score) ==
    [id |-> row.id, doc_id |-> row.doc_id, chunk_id |-> row.chunk_id,
     text |-> row.text, meta |-> row.meta, score |-> score]

\* VectorStore.search: the result lists the call can return
Search(rs, q, top_k) ==
    LET all == All(rs)
        sims == Sims(all, q)
    IN IF all = <<>> THEN {<<>>}
       ELSE {[k \in 1..Len(TopIdxs(f, top_k)) |->
                 Hit(all[TopIdxs(f, top_k)[k]], sims[TopIdxs(f, top_k)[k]])] :
             f \in Argsort(RankKeys(sims))}

\* --------------------------------------------------------------- retrieval
\* format_context: one header (source_name, chunk index, score) and one text
\* per hit; meta.get gives None for a missing key
MetaGet(meta, key, default) == IF key \in DOMAIN meta THEN meta[key] ELSE default

FormatContext(hits) ==
    [k \in 1..Len(hits) |->
        [source_name |-> MetaGet(hits[k].meta, "source_name", "None"),
         chunk_index |-> MetaGet(hits[k].meta, "chunk_index", "None"),
         score |-> hits[k].score, text |-> hits[k].text]]

\* h["meta"]["source_name"] and h["meta"]["chunk_index"] raise KeyError when absent
SourcesRaise(hits) ==
    \E k \in 1..Len(hits) :
        ~({"source_name", "chunk_index"} \subseteq DOMAIN hits[k].meta)

\* the "sources" list answer_query returns
Sources(hits) ==
    [k \in 1..Len(hits) |->
        [source_name |-> hits[k].meta.source_name,
         chunk_index |-> hits[k].meta.chunk_index,
         score |-> hits[k].score,
         page |-> MetaGet(hits[k].meta, "page", "None"),
         images |-> MetaGet(hits[k].meta, "images", <<>>)]]

ReturnValueCitedOnly(hits, answer) ==
    [answer |-> answer, sources |-> IF answer = "a1" THEN Sources(hits) ELSE <<>>]

\* the dict answer_query returns
ReturnValue(hits, answer) == [answer |-> answer, sources |-> Sources(hits)]

\* ----------------------------------------------------------------- indexer
\* chunks, page_idxs of document d: the same lists on every run
Chunks(d) == [j \in 1..total[d] |-> <<d, j - 1>>]
PageIdxs(d) == [j \in 1..total[d] |-> 0]

\* path = os.path.join(root, fn); a row's doc_id d stands for Path(d)
Path(d) == <<"pdfs", d>>

\* os.path.basename(path): the last component
Basename(path) == path[Len(path)]

BuildMetadata(path, chunk_idx, page_index) ==
    [source_path |-> path, chunk_index |-> chunk_idx,
     source_name |-> Basename(path), page |-> page_index]

\* metadatas = [build_metadata(path, i, pidx) for i, pidx in enumerate(page_idxs)]
Metadatas(d) == [j \in 1..total[d] |-> BuildMetadata(Path(d), j - 1, PageIdxs(d)[j])]

DocRows(rs, d) == SelectSeq(rs, LAMBDA r : r.doc_id = d)

\* SELECT COUNT(*) FROM documents WHERE doc_id = ?
CountRows(rs, d) == Len(DocRows(rs, d))

\* _get_indexed_count: sqlite3.Error (a failing query, or no documents table
\* yet) is swallowed and reported as 0
GetIndexedCount(rs, sch, d, fault) ==
    IF fault \/ ~sch THEN 0 ELSE CountRows(rs, d)

\* os.path.dirname(db_path) for the paths a caller passes: "db/rag.sqlite"
\* (the store of this model) and a bare file name such as "rag.sqlite"
DbDirs == {"db", ""}

\* os.makedirs(name, exist_ok=True): FileNotFoundError for the empty name
MakeDirs(name) == IF name = "" THEN "FileNotFoundError" ELSE "none"

\* a call of _get_indexed_count: makedirs runs inside the try, whose handler
\* catches sqlite3.Error only
IndexedCount(rs, sch, d, fault, dir) ==
    IF MakeDirs(dir) # "none" THEN [err |-> MakeDirs(dir), val |-> <<>>]
    ELSE [err |-> "none", val |-> GetIndexedCount(rs, sch, d, fault)]

FirstBatchFromZero(already_indexed, tot) == 0

\* the resume check and the head of "for i in range(start, total, BATCH)":
\* the first i of the batch loop, or -1 when no batch is processed
FirstBatch(already_indexed, tot) ==
    IF already_indexed >= tot THEN 0 - 1
    ELSE IF already_indexed < tot THEN already_indexed ELSE 0 - 1

\* the embedding the provider gives for one text
ProviderVector(text) == <<text[2] % 2, 1>>

\* embed_texts on a successful response: one vector per input, in order
EmbedTexts(texts) == [k \in 1..Len(texts) |-> ProviderVector(texts[k])]

AfterExceptionContinue(d) ==
    IF d + 1 > NumDocs THEN [pc |-> "idle", docIdx |-> d + 1]
    ELSE [pc |-> "walk", docIdx |-> d + 1]

\* "except Exception: ... return": the invocation ends where it is
AfterException(d) == [pc |-> "idle", docIdx |-> d]

AfterDocStop(d) == [pc |-> "idle", docIdx |-> d]

\* "continue" / end of the loop body: next file of the walk, or return
AfterDoc(d) ==
    IF d + 1 > NumDocs THEN [pc |-> "idle", docIdx |-> d + 1]
    ELSE [pc |-> "walk", docIdx |-> d + 1]

\* where executemany may raise: nowhere (0), on the first row, on the last row
FailPoints(n) == {0, 1, n} \cap 0..n

NoCalls == [d \in Docs |-> 0]
NoneSeen == [d \in Docs |-> 0 - 1]
NoOut == [err |-> "none", val |-> <<>>]
NoOp == [name |-> "none", args |-> <<>>]
NoChunking ==
    [st |-> "idle", page_texts |-> <<>>, max_tokens |-> 0, overlap |-> 0,
     pidx |-> 0, i |-> 0, iters |-> 0, chunks |-> <<>>, page_idxs |-> <<>>]
FaultChoices == IF faults < MaxFaults THEN {FALSE, TRUE} ELSE {FALSE}

\* index_pdfs is invoked: VectorStore(db_path) creates the schema if missing
StartRun(p) ==
    /\ pc[p] = "idle"
    /\ schema' = TRUE
    /\ pc' = [pc EXCEPT ![p] = "walk"]
    /\ docIdx' = [docIdx EXCEPT ![p] = 1]
    /\ result' = [result EXCEPT ![p] = "running"]
    /\ seen' = [seen EXCEPT ![p] = NoneSeen]
    /\ embedCalls' = [embedCalls EXCEPT ![p] = NoCalls]
    /\ addCalls' = [addCalls EXCEPT ![p] = NoCalls]
    /\ already' = [already EXCEPT ![p] = 0]
    /\ i' = [i EXCEPT ![p] = 0]
    /\ embs' = [embs EXCEPT ![p] = <<>>]
    /\ UNCHANGED <<rows, total, faults, provFail, swallowed, op, out, ck>>

\* one file of the walk, up to the first batch: extract, chunk, resume check;
\* total[d] = 0 stands for "not page_texts", an empty combined text and
\* "not chunks", which all take "continue" before the count query
VisitDoc(p) ==
    /\ pc[p] = "walk"
    /\ LET d == docIdx[p] IN
       \E fault \in FaultChoices :
          LET countFault == fault /\ total[d] > 0
              a  == GetIndexedCount(rows, schema, d, countFault)
              fb == FirstBatch(a, total[d])
              nx == AfterDoc(d)
          IN /\ fault => total[d] > 0
             /\ faults' = IF countFault THEN faults + 1 ELSE faults
             /\ swallowed' = [swallowed EXCEPT ![d] =
                                 @ \/ (countFault /\ CountRows(rows, d) > 0)]
             /\ IF total[d] = 0
                THEN /\ pc' = [pc EXCEPT ![p] = nx.pc]
                     /\ docIdx' = [docIdx EXCEPT ![p] = nx.docIdx]
                     /\ result' = [result EXCEPT ![p] = IF nx.pc = "idle" THEN "ok" ELSE @]
                     /\ UNCHANGED <<already, i, seen>>
                ELSE /\ already' = [already EXCEPT ![p] = a]
                     /\ seen' = [seen EXCEPT ![p][d] = a]
                     /\ IF fb < 0
                        THEN /\ pc' = [pc EXCEPT ![p] = nx.pc]
                             /\ docIdx' = [docIdx EXCEPT ![p] = nx.docIdx]
                             /\ result' = [result EXCEPT ![p] =
                                              IF nx.pc = "idle" THEN "ok" ELSE @]
                             /\ UNCHANGED i
                        ELSE /\ pc' = [pc EXCEPT ![p] = "embed"]
                             /\ i' = [i EXCEPT ![p] = fb]
                             /\ UNCHANGED <<docIdx, result>>
    /\ UNCHANGED <<rows, schema, total, embs, embedCalls, addCalls, provFail, op, out, ck>>

\* embs = embed_texts(batch_chunks)
Embed(p) ==
    /\ pc[p] = "embed"
    /\ LET d == docIdx[p] IN
       \E batch_chunks \in {Window(Chunks(d), i[p], BATCH)},
          outcome \in {"ok"} \cup (IF faults < MaxFaults THEN {"raise", "short"} ELSE {}) :
            /\ embedCalls' = [embedCalls EXCEPT ![p][d] = @ + 1]
            /\ faults' = IF outcome = "ok" THEN faults ELSE faults + 1
            /\ provFail' = [provFail EXCEPT ![d] = @ \/ outcome = "raise"]
            /\ IF outcome = "raise"
               THEN /\ pc' = [pc EXCEPT ![p] = AfterException(d).pc]
                    /\ docIdx' = [docIdx EXCEPT ![p] = AfterException(d).docIdx]
                    /\ result' = [result EXCEPT ![p] = "provider_error"]
                    /\ UNCHANGED embs
               ELSE /\ pc' = [pc EXCEPT ![p] = "add"]
                    /\ embs' = [embs EXCEPT ![p] =
                                  IF outcome = "ok" THEN EmbedTexts(batch_chunks)
                                  ELSE Slice(EmbedTexts(batch_chunks), 0 - 1)]
                    /\ UNCHANGED <<docIdx, result>>
    /\ UNCHANGED <<rows, schema, total, already, i, seen, addCalls, swallowed, op, out, ck>>

\* vs.add_many(...) for the batch, then the next i of the loop
AddBatch(p) ==
    /\ pc[p] = "add"
    /\ LET d == docIdx[p] IN
       \E batch_chunks \in {Window(Chunks(d), i[p], BATCH)},
          batch_metas \in {Window(Metadatas(d), i[p], BATCH)} :
         \E failAt \in (IF faults < MaxFaults /\ Len(embs[p]) = Len(batch_chunks)
                        THEN FailPoints(Len(batch_chunks)) ELSE {0}) :
           \E r \in {AddMany(rows, d, batch_chunks, batch_metas, embs[p], failAt)} :
             LET nx == IF r.err # "none" THEN AfterException(d)
                       ELSE IF i[p] + BATCH < total[d] THEN [pc |-> "embed", docIdx |-> d]
                       ELSE AfterDoc(d)
             IN /\ rows' = r.rows
                /\ addCalls' = [addCalls EXCEPT ![p][d] = @ + 1]
                /\ faults' = IF r.err = "sqlite3.Error" THEN faults + 1 ELSE faults
                /\ pc' = [pc EXCEPT ![p] = nx.pc]
                /\ docIdx' = [docIdx EXCEPT ![p] = nx.docIdx]
                /\ i' = [i EXCEPT ![p] = IF r.err = "none" THEN @ + BATCH ELSE @]
                /\ result' = [result EXCEPT ![p] =
                                 IF r.err = "sqlite3.Error" THEN "storage_error"
                                 ELSE IF r.err = "AssertionError" THEN "assertion_error"
                                 ELSE IF nx.pc = "idle" THEN "ok" ELSE @]
    /\ embs' = [embs EXCEPT ![p] = <<>>]
    /\ UNCHANGED <<schema, total, already, seen, embedCalls, provFail, swallowed, op, out, ck>>

InitCommon ==
    /\ rows = <<>>
    /\ schema = FALSE
    /\ pc = [p \in Procs |-> "idle"]
    /\ docIdx = [p \in Procs |-> 1]
    /\ already = [p \in Procs |-> 0]
    /\ i = [p \in Procs |-> 0]
    /\ embs = [p \in Procs |-> <<>>]
    /\ result = [p \in Procs |-> "none"]
    /\ seen = [p \in Procs |-> NoneSeen]
    /\ embedCalls = [p \in Procs |-> NoCalls]
    /\ addCalls = [p \in Procs |-> NoCalls]
    /\ faults = 0
    /\ provFail = [d \in Docs |-> FALSE]
    /\ swallowed = [d \in Docs |-> FALSE]
    /\ op = NoOp
    /\ out = NoOut

\* no chunking call is followed step by step
NotChunking == ck = NoChunking

\* a directory of NumDocs documents, one sequential writer
Init ==
    /\ InitCommon
    /\ NotChunking
    /\ total \in [Docs -> ChunkCounts]

Next ==
    \/ StartRun(1)
    \/ VisitDoc(1)
    \/ Embed(1)
    \/ AddBatch(1)

Spec == Init /\ [][Next]_vars

\* ------------------------------------------------- the store driven directly
\* metadata a direct caller of add_many passes: document 1 with the indexer's
\* keys, any other document without source_name and chunk_index
StoreMeta(d) == IF d = 1 THEN BuildMetadata(Path(1), 0, 0) ELSE [page |-> 0]

Idle == op.name = "none"

\* VectorStore(db_path)
OpenOp ==
    /\ Idle
    /\ schema' = TRUE
    /\ op' = [name |-> "open", args |-> <<>>]
    /\ out' = NoOut
    /\ UNCHANGED <<rows, idxVars>>

\* vs.add_many(doc_id, chunks, metadatas, embeddings) on an open store
AddManyOp ==
    /\ Idle
    /\ schema
    /\ \E d \in StoreDocs, nc \in 0..MaxBatchLen, nm \in 0..MaxBatchLen,
          ne \in 0..MaxBatchLen :
         \E embeddings \in [1..ne -> Vecs], failAt \in FailPoints(nc) :
            LET chunks == [k \in 1..nc |-> "t"]
                metadatas == [k \in 1..nm |-> StoreMeta(d)]
                r == AddMany(rows, d, chunks, metadatas, embeddings, failAt)
            IN /\ Len(rows) + nc <= MaxRows
               /\ rows' = r.rows
               /\ op' = [name |-> "add_many", args |-> <<d, nc, nm, ne>>]
               /\ out' = [err |-> r.err, val |-> <<>>]
    /\ UNCHANGED <<schema, idxVars>>

\* vs.all()
AllOp ==
    /\ Idle
    /\ schema
    /\ op' = [name |-> "all", args |-> <<>>]
    /\ out' = [err |-> "none", val |-> All(rows)]
    /\ UNCHANGED <<rows, schema, idxVars>>

\* vs.search(query_embedding, top_k)
SearchOp ==
    /\ Idle
    /\ schema
    /\ \E q \in Vecs, top_k \in TopKs :
         \E hits \in Search(rows, q, top_k) :
            /\ op' = [name |-> "search", args |-> <<q, top_k>>]
            /\ out' = [err |-> "none", val |-> hits]
    /\ UNCHANGED <<rows, schema, idxVars>>

\* _get_indexed_count(db_path, doc_id), also before any store was opened
IndexedCountOp ==
    /\ Idle
    /\ \E d \in StoreDocs, fault \in {FALSE, TRUE}, dir \in DbDirs :
         /\ op' = [name |-> "indexed_count", args |-> <<d, fault, dir>>]
         /\ out' = IndexedCount(rows, schema, d, fault, dir)
    /\ UNCHANGED <<rows, schema, idxVars>>

\* answer_query(db_path, query, top_k): the providers may raise, and give any
\* vector for the query and any answer text; out.val keeps, beside the dict
\* returned, the context put in the prompt and the hits it was made from
AnswerQueryOp ==
    /\ Idle
    /\ schema' = TRUE
    /\ \E top_k \in TopKs, q \in Vecs, answer \in Answers,
          embedOk \in BOOLEAN, chatOk \in BOOLEAN :
         /\ op' = [name |-> "answer_query", args |-> <<q, top_k>>]
         /\ IF ~embedOk
            THEN out' = [err |-> "ProviderError", val |-> <<>>]
            ELSE \E hits \in Search(rows, q, top_k) :
                   out' = IF ~chatOk
                          THEN [err |-> "ProviderError", val |-> <<>>]
                          ELSE IF SourcesRaise(hits)
                          THEN [err |-> "KeyError", val |-> <<>>]
                          ELSE [err |-> "none",
                                val |-> [answer |-> ReturnValue(hits, answer).answer,
                                         sources |-> ReturnValue(hits, answer).sources,
                                         context |-> FormatContext(hits),
                                         hits |-> hits]]
    /\ UNCHANGED <<rows, idxVars>>

\* ---------------------------------------------------------- POST /query
DefaultTopK == 5

\* the "query" and "top_k" members of the JSON payload: absent, null, a string
\* (a sequence of characters; " " is white space); absent, an integer, or a
\* value int() rejects
QueryTexts == {<<>>, <<" ">>, <<"a">>, <<" ", "a", " ">>}
QueryFields ==
    {[kind |-> "absent", s |-> <<>>], [kind |-> "null", s |-> <<>>]}
        \cup {[kind |-> "str", s |-> t] : t \in QueryTexts}
TopKFields ==
    {[kind |-> "absent", v |-> 0], [kind |-> "bad", v |-> 0]}
        \cup {[kind |-> "int", v |-> k] : k \in TopKs}

\* str.strip(): without leading and trailing white space
Strip(s) ==
    LET inked == {k \in 1..Len(s) : s[k] # " "}
    IN IF inked = {} THEN <<>>
       ELSE SubSeq(s, CHOOSE k \in inked : \A j \in inked : k <= j,
                      CHOOSE k \in inked : \A j \in inked : k >= j)

\* an exception no handler catches: the framework answers 500
Unhandled(e) ==
    [err |-> e, status |-> 500, message |-> "Internal Server Error",
     called |-> FALSE, body |-> <<>>]

\* "except Exception as e: raise HTTPException(500, ...)"
Failed(e) ==
    [err |-> e, status |-> 500, message |-> "Failed to process query",
     called |-> TRUE, body |-> <<>>]

\* the handler of POST /query: the responses it can give for a payload, the
\* vector qv and the text answer of the providers, and the step of
\* answer_query that fails (fail)
QueryResponses(rs, qf, tf, qv, answer, fail) ==
    IF qf.kind = "null" THEN {Unhandled("AttributeError")}
    ELSE IF tf.kind = "bad" THEN {Unhandled("ValueError")}
    ELSE LET query == Strip(qf.s)
             top_k == IF tf.kind = "absent" THEN DefaultTopK ELSE tf.v
         IN IF query = <<>>
            THEN {[err |-> "none", status |-> 400, message |-> "Query is required.",
                   called |-> FALSE, body |-> <<>>]}
            ELSE IF fail = "embed" THEN {Failed("ProviderError")}
            ELSE IF fail = "storage" THEN {Failed("sqlite3.Error")}
            ELSE IF fail = "chat" THEN {Failed("ProviderError")}
            ELSE {IF SourcesRaise(hits) THEN Failed("KeyError")
                  ELSE [err |-> "none", status |-> 200, message |-> "",
                        called |-> TRUE, body |-> ReturnValue(hits, answer)] :
                  hits \in Search(rs, qv, top_k)}

QueryOp ==
    /\ Idle
    /\ \E qf \in QueryFields, tf \in TopKFields, qv \in Vecs, answer \in Answers,
          fail \in {"none", "embed", "storage", "chat"} :
         \E r \in QueryResponses(rows, qf, tf, qv, answer, fail) :
            /\ op' = [name |-> "query", args |-> <<qf, tf>>]
            /\ out' = [err |-> r.err, val |-> r]
            /\ schema' = (schema \/ r.called)
    /\ UNCHANGED <<rows, idxVars>>

\* the caller takes the result; the next call can start
Return ==
    /\ ~Idle
    /\ op' = NoOp
    /\ out' = NoOut
    /\ UNCHANGED <<rows, schema, idxVars>>

InitStore ==
    /\ InitCommon
    /\ NotChunking
    /\ total = [d \in Docs |-> 0]

NextStore ==
    \/ OpenOp
    \/ AddManyOp
    \/ AllOp
    \/ SearchOp
    \/ IndexedCountOp
    \/ AnswerQueryOp
    \/ Return

SpecStore == InitStore /\ [][NextStore]_vars

\* the web application over a store filled through add_many
NextApp ==
    \/ OpenOp
    \/ AddManyOp
    \/ QueryOp
    \/ Return

SpecApp == InitStore /\ [][NextApp]_vars

\* ------------------------------------------------- chunk_text_per_page
\* page texts: empty, one character, white space only, words with a run of
\* white space longer than a window, and a text longer than two windows
ChunkTexts ==
    {<<>>, <<"a">>, <<" ", " ">>,
     <<"a", "b", " ", " ", " ", " ", "c">>,
     <<"a", "a", "a", "a", "a", "a", "a", "a", "a">>}

PageLists == UNION {[1..n -> ChunkTexts] : n \in 0..MaxPages}

\* chunk_size = max_tokens * 4
ChunkSize(max_tokens) == max_tokens * 4

ChunkStepSizeNoFloor(max_tokens, overlap) == ChunkSize(max_tokens) - overlap * 4

\* step = max(1, chunk_size - overlap * 4)
ChunkStepSize(max_tokens, overlap) ==
    IF ChunkSize(max_tokens) - overlap * 4 > 1
    THEN ChunkSize(max_tokens) - overlap * 4 ELSE 1

\* "for pidx, text in enumerate(page_texts)": the next page, "continue" on an
\* empty one, "return chunks, page_idxs" after the last
ChunkNextPage ==
    /\ ck.st = "page"
    /\ ck' = IF ck.pidx >= Len(ck.page_texts)
             THEN [ck EXCEPT !.st = "done"]
             ELSE IF ck.page_texts[ck.pidx + 1] = <<>>
             THEN [ck EXCEPT !.pidx = @ + 1]
             ELSE [ck EXCEPT !.st = "scan", !.i = 0, !.iters = 0]
    /\ UNCHANGED coreVars

\* one test of "while i < len(text)" and, when it holds, one pass of the body
ChunkScan ==
    /\ ck.st = "scan"
    /\ LET text == ck.page_texts[ck.pidx + 1]
           chunk == Strip(Window(text, ck.i, ChunkSize(ck.max_tokens)))
       IN ck' = IF ck.i < Len(text)
                THEN [ck EXCEPT
                        !.chunks = IF chunk # <<>> THEN Append(@, chunk) ELSE @,
                        !.page_idxs = IF chunk # <<>> THEN Append(@, ck.pidx) ELSE @,
                        !.i = @ + ChunkStepSize(ck.max_tokens, ck.overlap),
                        !.iters = @ + 1]
                ELSE [ck EXCEPT !.st = "page", !.pidx = @ + 1]
    /\ UNCHANGED coreVars

\* chunk_text_per_page(page_texts, max_tokens, overlap) is called
InitChunk ==
    /\ InitCommon
    /\ total = [d \in Docs |-> 0]
    /\ \E pages \in PageLists, max_tokens \in 0..MaxTokens, overlap \in 0..MaxOverlap :
          ck = [st |-> "page", page_texts |-> pages, max_tokens |-> max_tokens,
                overlap |-> overlap, pidx |-> 0, i |-> 0, iters |-> 0,
                chunks |-> <<>>, page_idxs |-> <<>>]

NextChunk ==
    \/ ChunkNextPage
    \/ ChunkScan

\* the call runs on: nothing suspends it
SpecChunk == InitChunk /\ [][NextChunk]_vars /\ WF_vars(NextChunk)

\* the same writer under weak fairness: the operator keeps re-invoking
\* index_pdfs and every started step completes; faults stop after MaxFaults
SpecLive == Init /\ [][Next]_vars /\ WF_vars(Next)

\* two index_pdfs processes on the same directory and the same store; sqlite
\* serialises the count query and the transaction of each add_many
NextConc ==
    \E p \in Procs :
        \/ StartRun(p)
        \/ VisitDoc(p)
        \/ Embed(p)
        \/ AddBatch(p)

\* the directory they walk: document 1 has chunks, the others yield none
InitConc ==
    /\ InitCommon
    /\ NotChunking
    /\ total \in {t \in [Docs -> ChunkCounts] : t[1] > 0 /\ \A d \in Docs : d > 1 => t[d] = 0}

SpecConc == InitConc /\ [][NextConc]_vars

\* =================================================================== claims
DocTexts(d) == {r.text : r \in Range(DocRows(rows, d))}
ChunkIds(d) == {r.chunk_id : r \in Range(DocRows(rows, d))}
FirstChunks(d, n) == {Chunks(d)[j] : j \in 1..Min(n, total[d])}
StoredOnce(d) == CountRows(rows, d) = total[d] /\ DocTexts(d) = FirstChunks(d, total[d])
RowOf(id) == CHOOSE r \in Range(rows) : r.id = id
HitIds(hits) == {hits[k].id : k \in 1..Len(hits)}

\* C1: for every doc_id the stored chunk_id values are exactly 0..count-1,
\* where count is the number of rows of that doc_id (no gap, no repeat).
C1_ChunkIdsContiguous ==
    \A d \in Docs : ChunkIds(d) = 0..(CountRows(rows, d) - 1)

\* C2: in an invocation that read indexed_count >= total for a document with
\* chunks, no embed_texts and no add_many call is made for it, and its stored
\* rows stay as they were while that invocation lasts.
C2_SkipState ==
    \A p \in Procs, d \in Docs :
        (total[d] > 0 /\ seen[p][d] >= total[d]) =>
            (embedCalls[p][d] = 0 /\ addCalls[p][d] = 0)

C2_SkipStep ==
    \A p \in Procs, d \in Docs :
        (total[d] > 0 /\ seen'[p][d] >= total[d]) =>
            DocRows(rows', d) = DocRows(rows, d)

C2_IdempotentResume == []C2_SkipState /\ [][C2_SkipStep]_vars

C2_Witness ==
    \E d \in Docs :
        /\ total[d] > BATCH
        /\ seen[1][d] = total[d]
        /\ result[1] = "ok"
        /\ StoredOnce(d)

\* C3: after a provider failure on some batch of a document, once a later
\* invocation on the unchanged document has completed, every chunk of the
\* document is stored exactly once (the chunks stored before the failure are
\* not stored again, the missing ones are added).
C3_PartialFailureDurability ==
    \A p \in Procs :
        result[p] = "ok" =>
            \A d \in Docs : (provFail[d] /\ total[d] > 0) => StoredOnce(d)

\* C4: add_many with chunks, metadatas, embeddings not all of equal length
\* raises (AssertionError) and leaves the table as it was.
C4_MismatchRejected ==
    [][(op'.name = "add_many" /\ ~(op'.args[2] = op'.args[3] /\ op'.args[3] = op'.args[4]))
          => (out'.err = "AssertionError" /\ rows' = rows)]_vars

C4_Witness ==
    /\ op.name = "add_many"
    /\ op.args[2] = 1 /\ op.args[3] = 1 /\ op.args[4] = 2
    /\ out.err = "AssertionError"
    /\ rows # <<>>

\* C5: a storage error while a batch is written leaves the table as it was
\* and ends the invocation on the spot; in every state the rows of the table
\* are whole batches: each run of chunk_id 0, 1, 2, ... goes on to the batch's
\* last row (chunk_id BATCH-1, or the document's last chunk).
WholeBatches ==
    \A k \in 1..Len(rows) :
        /\ \/ rows[k].chunk_id = BATCH - 1
           \/ rows[k].meta.chunk_index = total[rows[k].doc_id] - 1
           \/ /\ k < Len(rows)
              /\ rows[k + 1].doc_id = rows[k].doc_id
              /\ rows[k + 1].chunk_id = rows[k].chunk_id + 1
        /\ rows[k].chunk_id > 0 =>
              /\ k > 1
              /\ rows[k - 1].doc_id = rows[k].doc_id
              /\ rows[k - 1].chunk_id = rows[k].chunk_id - 1

C5_StorageErrorState ==
    /\ WholeBatches
    /\ \A p \in Procs : result[p] = "storage_error" =>
          /\ pc[p] = "idle"
          /\ \A d \in Docs : d > docIdx[p] =>
                (seen[p][d] = 0 - 1 /\ embedCalls[p][d] = 0 /\ addCalls[p][d] = 0)

C5_StorageErrorStep ==
    \A p \in Procs :
        (result[p] = "running" /\ result'[p] = "storage_error") =>
            (rows' = rows /\ pc'[p] = "idle")

C5_AddManyAtomic == []C5_StorageErrorState /\ [][C5_StorageErrorStep]_vars

C5_Witness ==
    /\ result[1] = "storage_error"
    /\ i[1] = BATCH
    /\ CountRows(rows, docIdx[1]) = BATCH
    /\ docIdx[1] < NumDocs
    /\ total[docIdx[1] + 1] > 0

\* C6: a provider failure ends the invocation on the spot: the failing step
\* stores nothing, no later batch of the document and no later document is
\* embedded or stored, and the table keeps everything it held.
C6_ProviderFailureState ==
    \A p \in Procs : result[p] = "provider_error" =>
        /\ pc[p] = "idle"
        /\ addCalls[p][docIdx[p]] = embedCalls[p][docIdx[p]] - 1
        /\ \A d \in Docs : d > docIdx[p] =>
              (seen[p][d] = 0 - 1 /\ embedCalls[p][d] = 0 /\ addCalls[p][d] = 0)

C6_ProviderFailureStep ==
    \A p \in Procs :
        /\ (result[p] = "running" /\ result'[p] = "provider_error") =>
              (rows' = rows /\ pc'[p] = "idle")
        /\ (result[p] = "provider_error" /\ result'[p] = "provider_error") =>
              rows' = rows

C6_ProviderFailureStops == []C6_ProviderFailureState /\ [][C6_ProviderFailureStep]_vars

C6_Witness ==
    /\ result[1] = "provider_error"
    /\ i[1] = BATCH
    /\ CountRows(rows, docIdx[1]) = BATCH
    /\ docIdx[1] < NumDocs
    /\ total[docIdx[1] + 1] > 0
    /\ CountRows(rows, docIdx[1] + 1) = 0

\* C7: with index_pdfs re-invoked for ever and faults that stop, every
\* document with chunks ends up with as many rows as chunks, for good.
C7_EventualCompletion ==
    <>[](\A d \in Docs : total[d] > 0 => CountRows(rows, d) = total[d])

\* C8: a search with positive top_k returns min(top_k, N) distinct stored
\* records, N the number of rows, and raises nothing.
C8_SearchLength ==
    (op.name = "search" /\ op.args[2] > 0) =>
        /\ out.err = "none"
        /\ Len(out.val) = Min(op.args[2], Len(rows))
        /\ Cardinality(HitIds(out.val)) = Len(out.val)
        /\ HitIds(out.val) \subseteq {r.id : r \in Range(rows)}

C8_Witness ==
    /\ op.name = "search"
    /\ op.args[2] > Len(rows)
    /\ Len(rows) = 2
    /\ Len(out.val) = 2

\* C9: the hits of a search come in non-increasing score order, each with the
\* cosine score of its own row, and no row left out scores strictly higher
\* than a hit.
C9_SearchRanked ==
    op.name = "search" =>
        LET q == op.args[1]
            hits == out.val
        IN /\ \A k \in 1..(Len(hits) - 1) : ScoreLeq(hits[k + 1].score, hits[k].score)
           /\ \A k \in 1..Len(hits) :
                 hits[k].score = Cosine(RowOf(hits[k].id).embedding, q)
           /\ \A r \in Range(rows) : r.id \notin HitIds(hits) =>
                 \A k \in 1..Len(hits) :
                    ~ScoreLt(hits[k].score, Cosine(r.embedding, q))

C9_Witness ==
    /\ op.name = "search"
    /\ Len(rows) = 2
    /\ Len(out.val) = 1
    /\ out.val[1].id = rows[2].id
    /\ ScoreLt(Cosine(rows[1].embedding, op.args[1]), out.val[1].score)

\* C10: every step keeps the stored rows as a prefix of the table, gives new
\* rows ids above every existing id, and open, all, search, indexed_count and
\* answer_query leave the table as it was.
C10_AppendOnlyStep ==
    /\ Len(rows') >= Len(rows)
    /\ SubSeq(rows', 1, Len(rows)) = rows
    /\ \A k \in (Len(rows) + 1)..Len(rows') :
          \A j \in 1..Len(rows) : rows'[k].id > rows[j].id
    /\ op'.name \in {"open", "all", "search", "indexed_count", "answer_query"} =>
          rows' = rows

C10_AppendOnly == [][C10_AppendOnlyStep]_vars

C10_Witness ==
    /\ op.name = "add_many"
    /\ out.err = "none"
    /\ Len(rows) = 2
    /\ rows[2].chunk_id = 0
    /\ rows[2].id > rows[1].id

\* C11: a document with no extracted page or no chunk is skipped: no count
\* query, no embed_texts call, no add_many call and no row for it, no error,
\* and the walk moves on to the next document.
C11_SkipState ==
    \A p \in Procs, d \in Docs :
        total[d] = 0 =>
            /\ seen[p][d] = 0 - 1
            /\ embedCalls[p][d] = 0
            /\ addCalls[p][d] = 0
            /\ CountRows(rows, d) = 0

C11_SkipStep ==
    \A p \in Procs :
        (pc[p] = "walk" /\ total[docIdx[p]] = 0 /\ <<pc[p], docIdx[p]>>' # <<pc[p], docIdx[p]>>) =>
            /\ rows' = rows
            /\ docIdx'[p] = docIdx[p] + 1
            /\ pc'[p] = (IF docIdx[p] < NumDocs THEN "walk" ELSE "idle")
            /\ result'[p] = (IF docIdx[p] < NumDocs THEN "running" ELSE "ok")

C11_EmptyDocSkipped == []C11_SkipState /\ [][C11_SkipStep]_vars

C11_Witness ==
    /\ total[1] = 0
    /\ total[2] > BATCH
    /\ result[1] = "ok"
    /\ faults = 0
    /\ CountRows(rows, 2) = total[2]

\* C12: indexed_count(doc_id) raises nothing and returns the number of rows of
\* doc_id: 0 when there are none, when no store exists at the location yet,
\* and when the query raises a storage error.
C12_IndexedCountNeverFails ==
    op.name = "indexed_count" =>
        /\ out.err = "none"
        /\ out.val = (IF op.args[2] \/ ~schema THEN 0 ELSE CountRows(rows, op.args[1]))

\* C13: reading the rows of one document in insertion (id) order, the stored
\* chunk_id never decreases, across batches and across resumed runs.
C13_ChunkIdNonDecreasing ==
    \A d \in Docs :
        LET rs == DocRows(rows, d)
        IN \A k \in 1..(Len(rs) - 1) :
              /\ rs[k].id < rs[k + 1].id
              /\ rs[k].chunk_id <= rs[k + 1].chunk_id

\* C14: two index_pdfs processes on the same document are unsafe: when both
\* read the same indexed_count below the document's chunk count and both run
\* to the end, the document holds more rows than chunks and some chunk twice
\* (the witness is such an interleaving, reached without any fault).
C14_ConcurrentDuplicates ==
    \A d \in Docs :
        (/\ result[1] = "ok" /\ result[2] = "ok"
         /\ seen[1][d] >= 0 /\ seen[1][d] < total[d]
         /\ seen[2][d] = seen[1][d]) =>
            /\ CountRows(rows, d) >= 2 * total[d] - seen[1][d]
            /\ CountRows(rows, d) > total[d]
            /\ Cardinality(DocTexts(d)) < CountRows(rows, d)

C14_Witness ==
    /\ faults = 0
    /\ result[1] = "ok" /\ result[2] = "ok"
    /\ total[1] > BATCH
    /\ seen[1][1] = 0 /\ seen[2][1] = 0
    /\ CountRows(rows, 1) = 2 * total[1]
    /\ rows[1].text = rows[BATCH + 1].text

\* C15: the sources answer_query returns have one entry per search hit, in hit
\* order, with that hit's source_name, chunk_index and score, the hits being a
\* result of search for the query vector and top_k; whatever text the
\* completion provider answers, the sources are the same.
C15_SourcesFromRetrieval ==
    (op.name = "answer_query" /\ out.err = "none") =>
        LET hits == out.val.hits
            sources == out.val.sources
        IN /\ hits \in Search(rows, op.args[1], op.args[2])
           /\ Len(sources) = Len(hits)
           /\ \A k \in 1..Len(hits) :
                 /\ sources[k].source_name = hits[k].meta.source_name
                 /\ sources[k].chunk_index = hits[k].meta.chunk_index
                 /\ sources[k].score = hits[k].score
           /\ \A a \in Answers : ReturnValue(hits, a).sources = sources

C15_Witness ==
    /\ op.name = "answer_query"
    /\ out.err = "none"
    /\ out.val.answer = "a2"
    /\ Len(out.val.sources) = 2
    /\ ScoreLt(out.val.sources[2].score, out.val.sources[1].score)
    /\ out.val.hits[1].id = 2

\* C16: POST /query with no query, or a query that is empty once trimmed, is
\* answered by a client error without a call of answer_query; a failure while
\* the request is handled is answered by a server error, never by a success.
C16_QueryErrors ==
    op.name = "query" =>
        LET qf == op.args[1]
        IN /\ (qf.kind = "absent" \/ (qf.kind = "str" /\ Strip(qf.s) = <<>>)) =>
                 (out.val.status = 400 /\ ~out.val.called)
           /\ out.err # "none" => (out.val.status = 500 /\ out.val.message # "")
           /\ out.val.status = 200 => out.err = "none"

\* C17: when indexed_count has swallowed a storage error for a document that
\* already had rows, then once the indexing run has completed the document's
\* stored data is correct: as many rows as chunks, each chunk stored once.
C17_SwallowedCountHarmless ==
    \A p \in Procs, d \in Docs :
        (swallowed[d] /\ result[p] = "ok") => StoredOnce(d)

C19_ChunkState ==
    ck.st # "idle" =>
        /\ ChunkStepSize(ck.max_tokens, ck.overlap) >= 1
        /\ ck.st = "scan" => ck.iters <= Len(ck.page_texts[ck.pidx + 1])
        /\ \A k \in 1..Len(ck.chunks) :
              ck.chunks[k] # <<>> /\ Strip(ck.chunks[k]) = ck.chunks[k]
        /\ Len(ck.page_idxs) = Len(ck.chunks)
        /\ \A k \in 1..(Len(ck.page_idxs) - 1) : ck.page_idxs[k] <= ck.page_idxs[k + 1]

C19_ChunkStep ==
    (ck.st = "scan" /\ ck'.st = "scan") => (ck'.i > ck.i /\ ck'.iters = ck.iters + 1)

C19_ChunkingTerminates ==
    /\ []C19_ChunkState
    /\ [][C19_ChunkStep]_vars
    /\ <>(ck.st = "done")

C19_Witness ==
    /\ ck.st = "done"
    /\ ck.max_tokens = 1
    /\ ck.overlap >= ck.max_tokens
    /\ Len(ck.page_texts) = 2
    /\ Len(ck.page_texts[1]) = 7
    /\ ck.page_texts[2] # <<>>
    /\ Len(ck.chunks) > 6
    /\ ck.page_idxs[1] = 0
    /\ ck.page_idxs[Len(ck.page_idxs)] = 1

\* C20: with a single sequential writer, the rows of a document, read in
\* insertion order, are the first n chunks of its chunk list for some
\* n <= total, the j-th row carrying the metadata chunk_index of the j-th chunk.
C20_PrefixAlignment ==
    \A d \in Docs :
        LET rs == DocRows(rows, d)
        IN /\ Len(rs) <= total[d]
           /\ \A j \in 1..Min(Len(rs), total[d]) :
                 /\ rs[j].text = Chunks(d)[j]
                 /\ rs[j].meta.chunk_index = j - 1
====
